---- MODULE Spec2Model ----
(***************************************************************************)
(* Model of src/utils_/functions_.py: the event matcher compare_events,    *)
(* the aggregator MetricsGaitEvents and the per-window loop of             *)
(* modelEvaluate.                                                          *)
(*                                                                         *)
(* numpy arrays are sequences; the code's 0-based positions and pointers   *)
(* are kept as they are (At(s, k) reads position k), so a pointer value in *)
(* a2b / b2a is exactly the integer the code stores.  An exception raised  *)
(* by numpy (shapes that do not broadcast, an index out of range) is the   *)
(* err field of a result: the call then returns nothing.                   *)
(***************************************************************************)
EXTENDS Integers, Sequences, FiniteSets, TLC

\* ---------------------------------------------------------------- bounds
\* compare_events on strictly ascending inputs (Spec)
MaxLen == 3
MaxVal == 10
MaxThr == 4
\* compare_events on inputs in any storage order (SpecAny)
MaxLenAny == 2
MaxValAny == 3
\* number of windows of one bout in modelEvaluate (SpecEval)
NumWindows == 2

\* ------------------------------------------------------ program constants
UNMATCHED == -999
\* numpy's nan, the value line 293 writes over the -999 of a missed event;
\* an integer no sample index and no shifted index can take
NaN == -1000
WinLen == 200
EvalThr == 20
min_distance == 40

\* ---------------------------------------------------------------- helpers
Abs(x) == IF x < 0 THEN 0 - x ELSE x

\* s[k] of the code, k a 0-based position
At(s, k) == s[k + 1]

\* number of entries of s equal to v: len(np.argwhere(s == v))
Count(s, v) == Cardinality({k \in 1..Len(s) : s[k] = v})

\* np.argmin(np.abs(arr - v)): the lowest 0-based position of the minimum
ArgMin(arr, v) ==
  CHOOSE k \in 0..(Len(arr) - 1) :
    /\ \A m \in 0..(Len(arr) - 1) : Abs(At(arr, k) - v) <= Abs(At(arr, m) - v)
    /\ \A m \in 0..(k - 1) : Abs(At(arr, m) - v) > Abs(At(arr, k) - v)

\* x2y = np.empty_like(x); for i: x2y[i] = np.argmin(np.abs(y - x[i]))
NearestCandidates(x, y) == [i \in 1..Len(x) |-> ArgMin(y, x[i])]

\* ResolveManyToOne without lines 129-132: every pointer is kept
ResolveManyToOneKeepAll(x2y, y2x) == x2y

\* lines 126-132 (and 134-138 with the roles swapped): every pointer value u
\* held by more than one entry keeps only the entry at position y2x[u];
\* np.setdiff1d(indices, y2x[u]) are the others, and they become -999.
\* The loop reads y2x, which it does not write, and an iteration writes only
\* entries equal to its own u: the iterations are independent.
ResolveManyToOne(x2y, y2x) ==
  [i \in 1..Len(x2y) |->
     IF Count(x2y, x2y[i]) > 1 /\ (i - 1) # At(y2x, x2y[i])
       THEN UNMATCHED ELSE x2y[i]]

\* lines 141-144 (147, 150): a valid pointer whose target holds -999 is
\* set to -999.  Only the target being -999 is tested, not where it points.
DropUnreciprocated(x2y, y2x) ==
  [i \in 1..Len(x2y) |->
     IF x2y[i] > UNMATCHED /\ At(y2x, x2y[i]) = UNMATCHED
       THEN UNMATCHED ELSE x2y[i]]

\* vals[ptr > -999]: boolean-mask indexing, in storage order
RECURSIVE Masked(_, _)
Masked(vals, ptr) ==
  IF Len(ptr) = 0 THEN << >>
  ELSE IF Head(ptr) > UNMATCHED
         THEN << Head(vals) >> \o Masked(Tail(vals), Tail(ptr))
         ELSE Masked(Tail(vals), Tail(ptr))

\* numpy broadcasting of two 1-d shapes (m,) and (n,)
Broadcastable(m, n) == m = n \/ m = 1 \/ n = 1
BroadcastLen(m, n) == IF m = 1 THEN n ELSE m
Stretch(s, k) == IF Len(s) = 1 THEN s[1] ELSE s[k]

\* x - y with broadcasting; defined when Broadcastable(Len(x), Len(y))
BroadcastSub(x, y) ==
  [k \in 1..BroadcastLen(Len(x), Len(y)) |-> Stretch(x, k) - Stretch(y, k)]

\* lines 158-161: for ti in range(len(time_diff)-1, -1, -1).
\* indices_a2b / indices_b2a are the copies of lines 156-157 (the pointer
\* VALUES that were valid before the loop).  Line 160 runs before line 161,
\* and either subscript raises IndexError when ti is past the copy's end.
RECURSIVE ThresholdLoop(_, _, _, _, _, _, _)
ThresholdLoop(a2b, b2a, time_diff, indices_a2b, indices_b2a, thr, ti) ==
  IF ti < 0 THEN [a2b |-> a2b, b2a |-> b2a, err |-> "none"]
  ELSE IF Abs(At(time_diff, ti)) > thr
    THEN IF ti >= Len(indices_b2a) \/ ti >= Len(indices_a2b)
           THEN [a2b |-> a2b, b2a |-> b2a, err |-> "IndexError"]
           ELSE ThresholdLoop(
                  [a2b EXCEPT ![At(indices_b2a, ti) + 1] = UNMATCHED],
                  [b2a EXCEPT ![At(indices_a2b, ti) + 1] = UNMATCHED],
                  time_diff, indices_a2b, indices_b2a, thr, ti - 1)
    ELSE ThresholdLoop(a2b, b2a, time_diff, indices_a2b, indices_b2a, thr, ti - 1)

Raised(e) == [a2b |-> << >>, b2a |-> << >>, time_diff |-> << >>, err |-> e]
Returned(a, b, d) == [a2b |-> a, b2a |-> b, time_diff |-> d, err |-> "none"]

AllUnmatched(n) == [k \in 1..n |-> UNMATCHED]

\* The value of a one-element set.  Only({F(x) : x \in {v}}) is F applied to
\* the value of v: the binding evaluates v once, as an assignment in the
\* code does (TLC evaluates an operator's argument again at each use).
Only(S) == CHOOSE r \in S : TRUE

\* lines 113-122: the two nearest-candidate maps
NearestPass(annotated, predicted) ==
  [a2b |-> NearestCandidates(annotated, predicted),
   b2a |-> NearestCandidates(predicted, annotated)]

\* lines 126-132
ResolveA2B(m) == [m EXCEPT !.a2b = ResolveManyToOne(m.a2b, m.b2a)]
\* lines 134-138: reads the a2b that lines 126-132 left
ResolveB2A(m) == [m EXCEPT !.b2a = ResolveManyToOne(m.b2a, m.a2b)]
\* lines 141-144, and again lines 149-150
ConsistencyA2B(m) == [m EXCEPT !.a2b = DropUnreciprocated(m.a2b, m.b2a)]
\* line 147: indices_b2a of line 142 are the valid entries of the b2a that
\* line 147 still finds, since line 144 writes a2b only
ConsistencyB2A(m) == [m EXCEPT !.b2a = DropUnreciprocated(m.b2a, m.a2b)]

\* line 164 and the return, after the loop of lines 158-161
FinalEstimate(annotated, predicted, loop) ==
  IF loop.err # "none" THEN Raised(loop.err)
  ELSE IF ~Broadcastable(Len(Masked(predicted, loop.b2a)),
                         Len(Masked(annotated, loop.a2b)))
    THEN Raised("ValueError")
  ELSE Returned(loop.a2b, loop.b2a,
                BroadcastSub(Masked(predicted, loop.b2a),
                             Masked(annotated, loop.a2b)))

\* lines 152-165: the subtraction of line 153 pairs the k-th valid entry of
\* b2a with the k-th valid entry of a2b, by position
ThresholdRejection(annotated, predicted, thr, m) ==
  IF ~Broadcastable(Len(Masked(predicted, m.b2a)), Len(Masked(annotated, m.a2b)))
    THEN Raised("ValueError")
    ELSE Only({FinalEstimate(annotated, predicted, loop) : loop \in
           {ThresholdLoop(m.a2b, m.b2a,
                          BroadcastSub(Masked(predicted, m.b2a),
                                       Masked(annotated, m.a2b)),
                          Masked(m.a2b, m.a2b), Masked(m.b2a, m.b2a), thr,
                          BroadcastLen(Len(Masked(predicted, m.b2a)),
                                       Len(Masked(annotated, m.a2b))) - 1)}})

\* lines 113-165: both inputs non-empty
MatchNonEmpty(annotated, predicted, thr) ==
  Only({ThresholdRejection(annotated, predicted, thr, m6) : m6 \in
    {ConsistencyA2B(m5) : m5 \in
      {ConsistencyB2A(m4) : m4 \in
        {ConsistencyA2B(m3) : m3 \in
          {ResolveB2A(m2) : m2 \in
            {ResolveA2B(m1) : m1 \in
              {NearestPass(annotated, predicted)}}}}}}})

\* lines 89-165
compare_events(annotated, predicted, thr) ==
  IF Len(annotated) = 0 /\ Len(predicted) = 0
    THEN Returned(<< >>, << >>, << >>)
  ELSE IF Len(annotated) # 0 /\ Len(predicted) = 0
    THEN Returned(AllUnmatched(Len(annotated)), << >>, AllUnmatched(Len(annotated)))
  ELSE IF Len(annotated) = 0 /\ Len(predicted) # 0
    THEN Returned(<< >>, AllUnmatched(Len(predicted)), AllUnmatched(Len(predicted)))
  ELSE MatchNonEmpty(annotated, predicted, thr)

\* vals[ptr != -999]: the mask of lines 204 and 206
RECURSIVE MaskedNe(_, _)
MaskedNe(vals, ptr) ==
  IF Len(ptr) = 0 THEN << >>
  ELSE IF Head(ptr) # UNMATCHED
         THEN << Head(vals) >> \o MaskedNe(Tail(vals), Tail(ptr))
         ELSE MaskedNe(Tail(vals), Tail(ptr))

\* 0-based positions k with ptr[k] != -999, ascending: np.argwhere(...)[:,0]
PositionsNe(ptr) == MaskedNe([k \in 1..Len(ptr) |-> k - 1], ptr)

\* number of entries of pos below position k (the rank of k among pos)
Rank(pos, k) == Cardinality({r \in 1..Len(pos) : pos[r] < k})

\* line 206: predicted_aligned[matched_events] = vals.  numpy assigns
\* position by position when the lengths agree, repeats a single value, and
\* raises ValueError otherwise.
AssignAt(base, pos, vals) ==
  [k \in 1..Len(base) |->
     IF \E r \in 1..Len(pos) : pos[r] = k - 1
       THEN Stretch(vals, Rank(pos, k - 1) + 1)
       ELSE base[k]]

\* lines 167-208
MetricsGaitEvents(ipksGS_, ipksDUT_, targets_2_predictions, predictions_2_targets) ==
  LET missed == Count(targets_2_predictions, UNMATCHED)
      extra == Count(predictions_2_targets, UNMATCHED)
      predicted_aligned == [k \in 1..Len(ipksGS_) |-> UNMATCHED]
      matched_events == PositionsNe(targets_2_predictions)
      vals == MaskedNe(ipksDUT_, predictions_2_targets)
  IN  IF Len(vals) # Len(matched_events) /\ Len(vals) # 1
        THEN [missed |-> missed, extra |-> extra,
              predicted_aligned |-> << >>, err |-> "ValueError"]
        ELSE [missed |-> missed, extra |-> extra,
              predicted_aligned |-> AssignAt(predicted_aligned, matched_events, vals),
              err |-> "none"]

\* ------------------------------------------------------------------ state
VARIABLES
  annotated,       \* compare_events: the annotated argument
  predicted,       \* compare_events: the predicted argument
  thr,             \* compare_events: the threshold argument
  pc,              \* "idle", "input", "matched", "aggregated", "raised"
  res,             \* what compare_events returned (or raised)
  agg,             \* what MetricsGaitEvents returned (or raised)
  i,               \* modelEvaluate: index of the next window
  t,               \* modelEvaluate: target events of the windows read so far
  missedEvents, extraEvents, GSevents, Differences, ipksDUT, ipksGS,
  status           \* modelEvaluate: "idle", "looping", "returned", "raised"

matchVars == << annotated, predicted, thr, pc, res, agg >>
evalVars == << i, t, missedEvents, extraEvents, GSevents, Differences,
               ipksDUT, ipksGS, status >>
vars == << annotated, predicted, thr, pc, res, agg, i, t, missedEvents,
           extraEvents, GSevents, Differences, ipksDUT, ipksGS, status >>

NoResult == Raised("none")
NoAggregate == [missed |-> 0, extra |-> 0, predicted_aligned |-> << >>, err |-> "none"]

\* ------------------------------------------------------------------ inputs
RECURSIVE Ascending(_)
Ascending(S) ==
  IF S = {} THEN << >>
  ELSE LET m == CHOOSE x \in S : \A y \in S : x <= y
       IN  << m >> \o Ascending(S \ {m})

\* strictly ascending sequences of sample indices, as np.argwhere and
\* find_peaks produce them
AscendingInputs(maxLen, maxVal) ==
  {Ascending(S) : S \in {T \in SUBSET (0..maxVal) : Cardinality(T) <= maxLen}}

\* sequences of sample indices in any storage order
AnyInputs(maxLen, maxVal) ==
  UNION {[1..n -> 0..maxVal] : n \in 0..maxLen}

EvalIdle ==
  /\ i = 0 /\ t = << >>
  /\ missedEvents = 0 /\ extraEvents = 0 /\ GSevents = 0
  /\ Differences = << >> /\ ipksDUT = << >> /\ ipksGS = << >>

MatchIdle ==
  /\ annotated = << >> /\ predicted = << >> /\ thr = 0
  /\ pc = "idle" /\ res = NoResult /\ agg = NoAggregate

Init ==
  /\ annotated \in AscendingInputs(MaxLen, MaxVal)
  /\ predicted \in AscendingInputs(MaxLen, MaxVal)
  /\ thr \in 0..MaxThr
  /\ pc = "input" /\ res = NoResult /\ agg = NoAggregate
  /\ EvalIdle /\ status = "idle"

InitAny ==
  /\ annotated \in AnyInputs(MaxLenAny, MaxValAny)
  /\ predicted \in AnyInputs(MaxLenAny, MaxValAny)
  /\ thr \in 0..MaxValAny
  /\ pc = "input" /\ res = NoResult /\ agg = NoAggregate
  /\ EvalIdle /\ status = "idle"

\* -------------------------------------------------- actions: the matcher
\* a call of compare_events: it returns its three arrays, or raises
CallCompareEvents ==
  /\ pc = "input"
  /\ \E r \in {compare_events(annotated, predicted, thr)} :
       /\ res' = r
       /\ pc' = IF r.err = "none" THEN "matched" ELSE "raised"
  /\ UNCHANGED << annotated, predicted, thr, agg >>
  /\ UNCHANGED evalVars

\* MetricsGaitEvents on what compare_events returned
CallMetricsGaitEvents ==
  /\ pc = "matched"
  /\ agg' = MetricsGaitEvents(annotated, predicted, res.a2b, res.b2a)
  /\ pc' = IF agg'.err = "none" THEN "aggregated" ELSE "raised"
  /\ UNCHANGED << annotated, predicted, thr, res >>
  /\ UNCHANGED evalVars

Next == CallCompareEvents \/ CallMetricsGaitEvents

Spec == Init /\ [][Next]_vars
SpecAny == InitAny /\ [][Next]_vars

\* ---------------------------------------------- actions: modelEvaluate
\* local indices at which a window's target label can be 1 (line 277)
TargetPositions == {5, 10, 84}
\* local indices at which find_peaks can report a peak (line 269)
PeakPositions == {7, 47}

\* what find_peaks returns: ascending interior samples (never the first or
\* the last one), neighbours at least min_distance apart
PeakSets ==
  {P \in SUBSET PeakPositions :
     /\ \A p \in P : 0 < p /\ p < WinLen - 1
     /\ \A p \in P : \A q \in P : p < q => q - p >= min_distance}

\* lines 269-275: the peaks, with sample 0 put in front when predLabel[0]
\* reaches min_height and the last sample appended when predLabel[-1] does
DetectedEvents(peaks, firstHigh, lastHigh) ==
  (IF firstHigh THEN << 0 >> ELSE << >>) \o Ascending(peaks)
    \o (IF lastHigh THEN << WinLen - 1 >> ELSE << >>)

\* ToNaN without line 293: the -999 of a missed event stays a number
ToNaNKeepSentinel(aligned) == aligned

\* lines 291-293: astype('float'), then -999 becomes nan
ToNaN(aligned) ==
  [k \in 1..Len(aligned) |-> IF aligned[k] = UNMATCHED THEN NaN ELSE aligned[k]]

\* Shift without the + 1 of lines 295-296 (indices left zero-based)
ShiftZeroBased(s, x) == [k \in 1..Len(x) |-> IF x[k] = NaN THEN NaN ELSE s + x[k]]

\* lines 295-296: s + x + 1; nan stays nan
Shift(s, x) == [k \in 1..Len(x) |-> IF x[k] = NaN THEN NaN ELSE s + x[k] + 1]

\* the exception that lines 279-281 raise on a window's events, if any
WindowError(ipksGS_, ipksDUT_) ==
  Only({IF cmp.err # "none" THEN cmp.err
        ELSE MetricsGaitEvents(ipksGS_, ipksDUT_, cmp.a2b, cmp.b2a).err
        : cmp \in {compare_events(ipksGS_, ipksDUT_, EvalThr)}})

InitEval ==
  /\ MatchIdle
  /\ EvalIdle /\ status = "looping"

\* one iteration of the loop of lines 241-299 that runs to its end
ProcessWindow ==
  /\ status = "looping" /\ i < NumWindows
  /\ \E targets \in SUBSET TargetPositions, peaks \in PeakSets,
        firstHigh \in BOOLEAN, lastHigh \in BOOLEAN :
       \E ipksGS_ \in {Ascending(targets)},
          ipksDUT_ \in {DetectedEvents(peaks, firstHigh, lastHigh)} :
       \E cmp \in {compare_events(ipksGS_, ipksDUT_, EvalThr)} :
         /\ cmp.err = "none"
         /\ \E m \in {MetricsGaitEvents(ipksGS_, ipksDUT_, cmp.a2b, cmp.b2a)} :
              /\ m.err = "none"
              /\ GSevents' = GSevents + Len(ipksGS_)
              /\ missedEvents' = missedEvents + m.missed
              /\ extraEvents' = extraEvents + m.extra
              /\ Differences' = Differences \o cmp.time_diff
              /\ ipksGS' = ipksGS \o Shift(i * WinLen, ipksGS_)
              /\ ipksDUT' = ipksDUT \o Shift(i * WinLen, ToNaN(m.predicted_aligned))
              /\ t' = Append(t, ipksGS_)
  /\ i' = i + 1
  /\ UNCHANGED status
  /\ UNCHANGED matchVars

\* an iteration in which compare_events (line 279) or MetricsGaitEvents
\* (line 281) raises: modelEvaluate returns nothing
WindowRaises ==
  /\ status = "looping" /\ i < NumWindows
  /\ \E targets \in SUBSET TargetPositions, peaks \in PeakSets,
        firstHigh \in BOOLEAN, lastHigh \in BOOLEAN :
       \E ipksGS_ \in {Ascending(targets)},
          ipksDUT_ \in {DetectedEvents(peaks, firstHigh, lastHigh)} :
         WindowError(ipksGS_, ipksDUT_) # "none"
  /\ status' = "raised"
  /\ UNCHANGED << i, t, missedEvents, extraEvents, GSevents, Differences,
                  ipksDUT, ipksGS >>
  /\ UNCHANGED matchVars

\* line 300, after the last window: preds.shape[0] = i
Return ==
  /\ status = "looping"
  /\ status' = "returned"
  /\ UNCHANGED << i, t, missedEvents, extraEvents, GSevents, Differences,
                  ipksDUT, ipksGS >>
  /\ UNCHANGED matchVars

NextEval == ProcessWindow \/ WindowRaises \/ Return

SpecEval == InitEval /\ [][NextEval]_vars

\* ------------------------------------------------------------ properties
\* compare_events has returned (it did not raise)
MatchReturned == pc \in {"matched", "aggregated", "raised"} /\ res.err = "none"
\* MetricsGaitEvents has been called on what compare_events returned
MetricsCalled == MatchReturned /\ pc \in {"aggregated", "raised"}
NonEmptyInputs == Len(annotated) > 0 /\ Len(predicted) > 0

StrictlyAscending(s) == \A k \in 1..(Len(s) - 1) : s[k] < s[k + 1]
Valid(ptr) == {k \in 1..Len(ptr) : ptr[k] # UNMATCHED}
Dist(ia, jp) == Abs(At(predicted, jp) - At(annotated, ia))

\* C1 (reciprocity): when compare_events returns on non-empty, strictly
\* ascending inputs, every pointer that survives in a2b is pointed back at by
\* b2a, and every pointer that survives in b2a is pointed back at by a2b.
C1_Reciprocity ==
  (MatchReturned /\ NonEmptyInputs) =>
    /\ \A ka \in Valid(res.a2b) : At(res.b2a, res.a2b[ka]) = ka - 1
    /\ \A kb \in Valid(res.b2a) : At(res.a2b, res.b2a[kb]) = kb - 1

\* C2 (threshold enforcement): when compare_events returns on non-empty,
\* strictly ascending inputs, every returned timing difference is within
\* thr, every surviving pointer of a2b and of b2a joins two events at most
\* thr apart, and a nearest-candidate pair further apart than thr is left
\* matched on neither side.
C2_ThresholdEnforced ==
  (MatchReturned /\ NonEmptyInputs) =>
    /\ \A k \in 1..Len(res.time_diff) : Abs(res.time_diff[k]) <= thr
    /\ \A ka \in Valid(res.a2b) : Dist(ka - 1, res.a2b[ka]) <= thr
    /\ \A kb \in Valid(res.b2a) : Dist(res.b2a[kb], kb - 1) <= thr
    /\ \A ka \in 1..Len(annotated) :
         LET j == ArgMin(predicted, annotated[ka])
         IN  Dist(ka - 1, j) > thr =>
               res.a2b[ka] = UNMATCHED /\ At(res.b2a, j) # ka - 1
    /\ \A kb \in 1..Len(predicted) :
         LET ia == ArgMin(annotated, predicted[kb])
         IN  Dist(ia, kb - 1) > thr =>
               res.b2a[kb] = UNMATCHED /\ At(res.a2b, ia) # kb - 1

\* C3 (count conservation): when compare_events returns on non-empty,
\* strictly ascending inputs, a2b and b2a hold the same number P of valid
\* entries, P is the length of the timing differences, and the missed and
\* extra of MetricsGaitEvents satisfy missed + P = len(annotated) and
\* extra + P = len(predicted).
C3_CountConservation ==
  (MatchReturned /\ NonEmptyInputs) =>
    /\ Cardinality(Valid(res.a2b)) = Len(res.time_diff)
    /\ Cardinality(Valid(res.b2a)) = Len(res.time_diff)
    /\ pc = "aggregated" =>
         /\ agg.missed + Len(res.time_diff) = Len(annotated)
         /\ agg.extra + Len(res.time_diff) = Len(predicted)

\* C5 (degenerate inputs): with an empty input compare_events returns
\* without error; both empty gives three empty results, an empty predicted
\* gives an all-UNMATCHED a2b, an empty b2a and no timing difference, and an
\* empty annotated gives the mirror image, again with no timing difference.
C5_DegenerateInputs ==
  (pc # "input" /\ ~NonEmptyInputs) =>
    /\ res.err = "none"
    /\ res.a2b = AllUnmatched(Len(annotated))
    /\ res.b2a = AllUnmatched(Len(predicted))
    /\ res.time_diff = << >>

\* C6 (aligned predictions): on what compare_events returned for strictly
\* ascending inputs, MetricsGaitEvents completes without error and returns
\* a sequence as long as annotated that holds predicted[a2b[i]] at every
\* matched position i and the sentinel -999 at every other position.
C6_AlignedPredictions ==
  MetricsCalled =>
    /\ agg.err = "none"
    /\ Len(agg.predicted_aligned) = Len(annotated)
    /\ \A ka \in 1..Len(annotated) :
         agg.predicted_aligned[ka] =
           IF res.a2b[ka] # UNMATCHED THEN At(predicted, res.a2b[ka])
                                      ELSE UNMATCHED

\* annotated event ia and predicted event jp are each other's nearest
\* candidate after the pass of lines 113-122
MutualNearest(ia, jp) ==
  ArgMin(predicted, At(annotated, ia)) = jp /\ ArgMin(annotated, At(predicted, jp)) = ia

\* C9 (completeness): when compare_events returns on non-empty, strictly
\* ascending inputs, every pair of mutual nearest candidates at most thr
\* apart is matched in the result, on both sides.
C9_Completeness ==
  (MatchReturned /\ NonEmptyInputs) =>
    \A ia \in 0..(Len(annotated) - 1), jp \in 0..(Len(predicted) - 1) :
      (MutualNearest(ia, jp) /\ Dist(ia, jp) <= thr) =>
        At(res.a2b, ia) = jp /\ At(res.b2a, jp) = ia

\* C4 (mutual exclusivity): in what compare_events returns, for inputs in
\* any order, no predicted index is the value of two valid entries of a2b
\* and no annotated index is the value of two valid entries of b2a.
C4_MutualExclusivity ==
  MatchReturned =>
    /\ \A k1 \in Valid(res.a2b), k2 \in Valid(res.a2b) :
         res.a2b[k1] = res.a2b[k2] => k1 = k2
    /\ \A k1 \in Valid(res.b2a), k2 \in Valid(res.b2a) :
         res.b2a[k1] = res.b2a[k2] => k1 = k2

\* two annotated events had the same nearest candidate, and compare_events
\* returned with one of them matched
C4_Witness ==
  /\ MatchReturned /\ NonEmptyInputs
  /\ \E k1 \in 1..Len(annotated), k2 \in 1..Len(annotated) :
       /\ k1 # k2
       /\ ArgMin(predicted, annotated[k1]) = ArgMin(predicted, annotated[k2])
       /\ res.a2b[k1] # UNMATCHED
       /\ res.a2b[k2] = UNMATCHED

Distinct(s) == \A k1 \in 1..Len(s), k2 \in 1..Len(s) : s[k1] = s[k2] => k1 = k2
\* the nearest element of arr to v is unique
NoTie(arr, v) ==
  \A m \in 0..(Len(arr) - 1) :
    m # ArgMin(arr, v) => Abs(At(arr, m) - v) > Abs(At(arr, ArgMin(arr, v)) - v)
SortedOf(s) == Ascending({s[k] : k \in 1..Len(s)})
\* the matched (annotated sample, predicted sample) pairs of a result r
MatchedPairs(a, p, r) == {<< a[k], At(p, r.a2b[k]) >> : k \in Valid(r.a2b)}
SameBag(d1, d2) ==
  /\ Len(d1) = Len(d2)
  /\ \A k \in 1..Len(d1) : Count(d1, d1[k]) = Count(d2, d1[k])

\* C8 (order independence): for non-empty inputs with pairwise distinct
\* values and no distance ties, whatever the storage order, compare_events
\* returns the matched value pairs, the multiset of timing differences and
\* the numbers of UNMATCHED entries that it returns for the ascending order.
C8_OrderIndependence ==
  (/\ MatchReturned /\ NonEmptyInputs
   /\ Distinct(annotated) /\ Distinct(predicted)
   /\ \A k \in 1..Len(annotated) : NoTie(predicted, annotated[k])
   /\ \A k \in 1..Len(predicted) : NoTie(annotated, predicted[k])) =>
    \A r0 \in {compare_events(SortedOf(annotated), SortedOf(predicted), thr)} :
      r0.err = "none" =>
        /\ MatchedPairs(annotated, predicted, res)
             = MatchedPairs(SortedOf(annotated), SortedOf(predicted), r0)
        /\ SameBag(res.time_diff, r0.time_diff)
        /\ Count(res.a2b, UNMATCHED) = Count(r0.a2b, UNMATCHED)
        /\ Count(res.b2a, UNMATCHED) = Count(r0.b2a, UNMATCHED)

\* C7 as the spec states it (scenario C): two windows of length 200, one
\* target event at local index 10 in window 0 and one at local index 5 in
\* window 1, give the absolute ground-truth sequence [11, 215].
C7_ScenarioC_AsStated ==
  (status = "returned" /\ t = << << 10 >>, << 5 >> >>) => ipksGS = << 11, 215 >>

\* C7 (scenario C, amended): two windows of length 200, one target event at
\* local index 10 in window 0 and one at local index 5 in window 1, give the
\* absolute ground-truth sequence [11, 206] (206 = 1 * 200 + 5 + 1).
C7_ScenarioC ==
  (status = "returned" /\ t = << << 10 >>, << 5 >> >>) => ipksGS = << 11, 206 >>

\* modelEvaluate returned after exactly the two windows of scenario C
C7_Witness ==
  status = "returned" /\ i = 2 /\ WinLen = 200 /\ t = << << 10 >>, << 5 >> >>

IsPrefix(s, u) == Len(s) <= Len(u) /\ SubSeq(u, 1, Len(s)) = s

\* C10 (accumulator consistency): each processed window leaves ipksGS and
\* ipksDUT with the same length, equal to GSevents, leaves as many nan
\* entries in ipksDUT as missedEvents counts, and leaves the entries that
\* earlier windows appended where and as they were.
C10_AccumulatorConsistency ==
  [][i' = i + 1 =>
       /\ Len(ipksGS') = GSevents'
       /\ Len(ipksDUT') = GSevents'
       /\ Count(ipksDUT', NaN) = missedEvents'
       /\ IsPrefix(ipksGS, ipksGS')
       /\ IsPrefix(ipksDUT, ipksDUT')]_vars

\* two windows processed, each with target events, some matched and some
\* missed
C10_Witness ==
  /\ i = 2 /\ Len(t[1]) > 0 /\ Len(t[2]) > 0
  /\ missedEvents > 0 /\ missedEvents < GSevents
  /\ Len(ipksDUT) = GSevents

====
